---- MODULE Spec2Model ----
(***************************************************************************)
(* Predictive-Maintenance-System: the Flask API of src/backend/api.py      *)
(* (get_engines, get_fleet_stats, predict_failure, get_recommendation,    *)
(* calculate_roi)                                                          *)
(* and the feature engineering of src/model_utils.py (FeatureEngineer).    *)
(*                                                                         *)
(* Numbers.  A raw sensor value is an integer or NaN.  temperature,        *)
(* vibration, oil_quality and operating_hours are in whole units; pressure *)
(* is kept in tenths of a unit (550 is 55.0), so that the thresholds 54.3, *)
(* 54.5, 55.3, 55.5, 55.7 are the integers 543 .. 557.  A probability is   *)
(* kept in hundredths (91 is 0.91).  A derived value (a mean, a variance,  *)
(* a ratio, a percentage) is an exact rational <<num, den>> in lowest      *)
(* terms with den > 0; <<0, 0>> is NaN.                                    *)
(***************************************************************************)
EXTENDS Integers, Sequences, FiniteSets, TLC

VARIABLES data_loaded, df, model_loaded, resp, calls, last_features

vars == <<data_loaded, df, model_loaded, resp, calls, last_features>>

(***************************************************************************)
(* Bounds of the model.                                                    *)
(***************************************************************************)
\* Largest number of rows of the loaded dataset.
MaxRows == 3
\* FeatureEngineer.window_size: 24 in the repository, small here so that a
\* series of MaxRows readings is longer than the window.
WindowSize == 2
\* The number of most recent readings predict_failure keeps: 50 in the
\* repository, small here so that a history can be longer than it.
TailN == 2

\* numpy.nan in a raw column (a missing value of the CSV file).
NaN == -1000
\* NaN in a derived column: 0/0.
NaNq == <<0, 0>>

IsNaN(x) == x = NaN

(***************************************************************************)
(* Exact rationals.                                                        *)
(***************************************************************************)
Abs(x) == IF x < 0 THEN -x ELSE x

RECURSIVE GCD(_, _)
GCD(a, b) == IF b = 0 THEN a ELSE GCD(b, a % b)

\* num/den in lowest terms, den made positive; den = 0 with num = 0 is NaN.
Rat(num, den) ==
    IF den = 0 THEN NaNq
    ELSE LET g == GCD(Abs(num), Abs(den))
             s == IF den < 0 THEN -1 ELSE 1
         IN  <<s * (num \div g), s * (den \div g)>>

(***************************************************************************)
(* Readings and datasets.                                                  *)
(***************************************************************************)
\* A row of sensor_data.csv; p is <<temperature, pressure, vibration,
\* oil_quality, operating_hours, failure>>.
Reading(e, t, p) ==
    [engine_id |-> e, timestamp |-> t,
     temperature |-> p[1], pressure |-> p[2], vibration |-> p[3],
     oil_quality |-> p[4], operating_hours |-> p[5], failure |-> p[6]]

\* Engine ids and timestamps of the rows, and the engine ids of a request
\* (3 has no reading).
EngineIds == {1, 2}
Timestamps == {1, 2, 3}
RequestIds == {1, 2, 3}

\* Values of the query parameter 'hours': negative, zero, one reading, and
\* the default of 168.
Hours == {-1, 0, 1, 168}

\* Value profiles of the fleet specification: healthy, degrading, and failed
\* with degrading sensors.
FleetProfiles ==
    { <<600, 550, 5, 80, 10, 0>>,
      <<645, 556, 16, 22, 20, 0>>,
      <<645, 556, 16, 22, 30, 1>> }

\* Value profiles of the feature specification: two defined readings, a
\* reading whose temperature is missing, and a reading whose
\* temperature / (pressure + 1) is 0/0.
FeatureProfiles ==
    { <<75, 400, 2, 90, 10, 0>>,
      <<78, 420, 6, 30, 11, 1>>,
      <<NaN, 400, 2, 90, 12, 0>>,
      <<0, -10, 2, 90, 13, 0>> }

\* Value profiles of the two-engine feature specification.
MixedProfiles ==
    { <<75, 400, 2, 90, 10, 0>>,
      <<78, 420, 6, 30, 11, 1>>,
      <<NaN, 400, 2, 90, 12, 0>> }

\* Value profiles around the division temperature / (pressure + 1): a usual
\* reading, pressure = -1.0 with a non-zero and with a zero temperature.
DivisionProfiles ==
    { <<75, 400, 2, 90, 10, 0>>,
      <<75, -10, 2, 90, 11, 0>>,
      <<0, -10, 2, 90, 13, 0>> }

\* Value profiles of the specification that compares calls.
CallProfiles ==
    { <<75, 400, 2, 90, 10, 0>>,
      <<78, 420, 6, 30, 11, 1>> }


GridTemperature == {569, 570, 579, 580, 629, 630, 640, 641, 650, 651, NaN}
GridPressure == {542, 543, 544, 545, 552, 553, 555, 556, 557, 558, NaN}
GridVibration == {11, 12, 15, 16, 18, 19, NaN}
GridOilQuality == {14, 15, 19, 20, 24, 25, NaN}

\* Values on both sides of the thresholds of get_recommendation, and NaN.
RecoTemperature == {100, 101, NaN}
RecoVibration == {8, 9, NaN}
RecoOilQuality == {39, 40, NaN}

\* The single readings of the rules specification: the grid of the health
\* rules, the grid of the recommendation, and the two scenarios of the
\* specification (all sensors healthy; temperature 645).
RuleReadings ==
    { Reading(1, 1, <<t, p, v, o, 10, f>>) :
        t \in GridTemperature, p \in GridPressure, v \in GridVibration,
        o \in GridOilQuality, f \in {0, 1} }
    \cup { Reading(1, 1, <<t, 550, v, o, 10, 0>>) :
        t \in RecoTemperature, v \in RecoVibration, o \in RecoOilQuality }
    \cup { Reading(1, 1, <<600, 550, 5, 80, 10, 0>>),
           Reading(1, 1, <<645, 550, 5, 80, 10, 0>>) }

ReadingsOf(engines, times, profiles) ==
    { Reading(e, t, p) : e \in engines, t \in times, p \in profiles }

DatasetsOf(readings, n) == UNION { [1..k -> readings] : k \in 0..n }

(***************************************************************************)
(* Arithmetic of the derived columns.                                      *)
(***************************************************************************)
Inf == <<1, 0>>
NegInf == <<-1, 0>>

\* Floating-point division: x/0 is inf, -inf or (0/0) NaN.
Div(num, den) ==
    IF den = 0
    THEN (IF num = 0 THEN NaNq ELSE IF num > 0 THEN Inf ELSE NegInf)
    ELSE Rat(num, den)

RECURSIVE Sum(_)
Sum(s) == IF s = <<>> THEN 0 ELSE s[1] + Sum(Tail(s))

RECURSIVE SumSq(_)
SumSq(s) == IF s = <<>> THEN 0 ELSE s[1] * s[1] + SumSq(Tail(s))

Max(a, b) == IF a >= b THEN a ELSE b
Min(a, b) == IF a <= b THEN a ELSE b

Column(rows, col) == [i \in 1..Len(rows) |-> rows[i][col]]

\* The non-missing values of a window, which pandas' rolling aggregates use.
Observed(vals) == SelectSeq(vals, LAMBDA x : ~IsNaN(x))

(***************************************************************************)
(* FeatureEngineer.create_temporal_features                                *)
(***************************************************************************)
\* Does row a sort before or with row b under sort_values(['engine_id',
\* 'timestamp'])?
KeyLeq(a, b) ==
    \/ a.engine_id < b.engine_id
    \/ a.engine_id = b.engine_id /\ a.timestamp <= b.timestamp

\* r put after the last row of the sorted sequence s whose key is <= r's.
RECURSIVE InsertRow(_, _)
InsertRow(s, r) ==
    IF s = <<>> THEN <<r>>
    ELSE IF KeyLeq(s[Len(s)], r) THEN Append(s, r)
    ELSE Append(InsertRow(SubSeq(s, 1, Len(s) - 1), r), s[Len(s)])

\* Mutant of SortValues: the rows are left in storage order.
SortValues_Unsorted(rows) == rows

\* df.sort_values(['engine_id', 'timestamp']): a stable sort (rows with equal
\* keys keep their order).
RECURSIVE SortValues(_)
SortValues(rows) ==
    IF rows = <<>> THEN <<>>
    ELSE InsertRow(SortValues(SubSeq(rows, 1, Len(rows) - 1)), rows[Len(rows)])

\* Mutant of SeriesUpTo: no groupby, the series is the whole frame.
SeriesUpTo_NoGroup(s, i) == SubSeq(s, 1, i)

\* groupby('engine_id'): the rows of row i's engine, up to and including row i.
SeriesUpTo(s, i) ==
    SelectSeq(SubSeq(s, 1, i), LAMBDA r : r.engine_id = s[i].engine_id)

\* Mutant of Window: an expanding window, every row of the series so far.
Window_Expanding(g, w) == g

\* x.rolling(window=w, min_periods=1): the last w rows of the series.
Window(g, w) == SubSeq(g, Max(1, Len(g) - w + 1), Len(g))

\* .mean() of a rolling window: over the observed values, NaN when none.
RollingMean(s, i, col, w) ==
    LET vals == Observed(Column(Window(SeriesUpTo(s, i), w), col))
    IN  IF Len(vals) >= 1 THEN Rat(Sum(vals), Len(vals)) ELSE NaNq

\* .std() of a rolling window (ddof = 1), carried as its square, the sample
\* variance: NaN with fewer than two observed values.
RollingStdRaw(s, i, col, w) ==
    LET vals == Observed(Column(Window(SeriesUpTo(s, i), w), col))
        n == Len(vals)
    IN  IF n >= 2
        THEN Rat(n * SumSq(vals) - Sum(vals) * Sum(vals), n * (n - 1))
        ELSE NaNq

\* Mutant of RollingStd: the std is left as computed, without fillna(0).
RollingStd_NoFill(s, i, col, w) == RollingStdRaw(s, i, col, w)

\* .fillna(0) on the rolling std.
RollingStd(s, i, col, w) ==
    LET v == RollingStdRaw(s, i, col, w)
    IN  IF v = NaNq THEN <<0, 1>> ELSE v

\* x.diff() within the engine's series: NaN on the first row and next to a
\* missing value.
DiffRaw(s, i, col) ==
    LET g == SeriesUpTo(s, i)
        n == Len(g)
    IN  IF n >= 2 /\ ~IsNaN(g[n][col]) /\ ~IsNaN(g[n - 1][col])
        THEN g[n][col] - g[n - 1][col]
        ELSE NaN

\* .fillna(0) on the diff.
RateOfChange(s, i, col) ==
    LET v == DiffRaw(s, i, col)
    IN  IF IsNaN(v) THEN 0 ELSE v

TemporalColumns(s, i, w) ==
    [temperature_rolling_mean |-> RollingMean(s, i, "temperature", w),
     temperature_rolling_std |-> RollingStd(s, i, "temperature", w),
     temperature_rate_of_change |-> RateOfChange(s, i, "temperature"),
     pressure_rolling_mean |-> RollingMean(s, i, "pressure", w),
     pressure_rolling_std |-> RollingStd(s, i, "pressure", w),
     pressure_rate_of_change |-> RateOfChange(s, i, "pressure"),
     vibration_rolling_mean |-> RollingMean(s, i, "vibration", w),
     vibration_rolling_std |-> RollingStd(s, i, "vibration", w),
     vibration_rate_of_change |-> RateOfChange(s, i, "vibration"),
     oil_quality_rolling_mean |-> RollingMean(s, i, "oil_quality", w),
     oil_quality_rolling_std |-> RollingStd(s, i, "oil_quality", w),
     oil_quality_rate_of_change |-> RateOfChange(s, i, "oil_quality")]

create_temporal_features(rows, w) ==
    LET s == SortValues(rows)
    IN  [i \in 1..Len(s) |-> s[i] @@ TemporalColumns(s, i, w)]

(***************************************************************************)
(* FeatureEngineer.create_interaction_features                             *)
(***************************************************************************)
\* temperature / (pressure + 1), pressure in tenths.
temp_pressure_ratio(r) ==
    IF IsNaN(r.temperature) \/ IsNaN(r.pressure) THEN NaNq
    ELSE Div(10 * r.temperature, r.pressure + 10)

vibration_temp_product(r) ==
    IF IsNaN(r.vibration) \/ IsNaN(r.temperature) THEN NaNq
    ELSE <<r.vibration * r.temperature, 1>>

\* ((150 - T)/100 + O/100 + (20 - V)/20 + (80 - P)/80) / 4 over the common
\* denominator 3200 (P in tenths).
health_score(r) ==
    IF \E c \in {"temperature", "pressure", "vibration", "oil_quality"} : IsNaN(r[c])
    THEN NaNq
    ELSE Rat(8 * (150 - r.temperature) + 8 * r.oil_quality
               + 40 * (20 - r.vibration) + (800 - r.pressure), 3200)

\* (T/150 + P/80 + V/20) / 3 over the common denominator 7200 (P in tenths).
stress_indicator(r) ==
    IF \E c \in {"temperature", "pressure", "vibration"} : IsNaN(r[c])
    THEN NaNq
    ELSE Rat(16 * r.temperature + 3 * r.pressure + 120 * r.vibration, 7200)

\* Mutant of create_interaction_features: the product is written over the
\* vibration column instead of into a column of its own.
create_interaction_features_Overwrite(rows) ==
    [i \in 1..Len(rows) |->
        [rows[i] EXCEPT !.vibration = rows[i].vibration * rows[i].temperature]
           @@ [temp_pressure_ratio |-> temp_pressure_ratio(rows[i]),
               vibration_temp_product |-> vibration_temp_product(rows[i]),
               health_score |-> health_score(rows[i]),
               stress_indicator |-> stress_indicator(rows[i])]]

create_interaction_features(rows) ==
    [i \in 1..Len(rows) |->
        rows[i] @@ [temp_pressure_ratio |-> temp_pressure_ratio(rows[i]),
                    vibration_temp_product |-> vibration_temp_product(rows[i]),
                    health_score |-> health_score(rows[i]),
                    stress_indicator |-> stress_indicator(rows[i])]]

(***************************************************************************)
(* FeatureEngineer.prepare_features                                        *)
(***************************************************************************)
RawColumns ==
    {"engine_id", "timestamp", "temperature", "pressure", "vibration",
     "oil_quality", "operating_hours", "failure"}

\* The derived columns that hold rationals (the rates of change are integers).
RationalColumns ==
    {"temperature_rolling_mean", "temperature_rolling_std",
     "pressure_rolling_mean", "pressure_rolling_std",
     "vibration_rolling_mean", "vibration_rolling_std",
     "oil_quality_rolling_mean", "oil_quality_rolling_std",
     "temp_pressure_ratio", "vibration_temp_product",
     "health_score", "stress_indicator"}

RateColumns ==
    {"temperature_rate_of_change", "pressure_rate_of_change",
     "vibration_rate_of_change", "oil_quality_rate_of_change"}

\* Mutant of HasNaN: only the raw columns are looked at.
HasNaN_RawOnly(row) == \E c \in RawColumns : IsNaN(row[c])

\* Does the feature row hold a NaN in any column?
HasNaN(row) ==
    \/ \E c \in RawColumns \cup RateColumns : IsNaN(row[c])
    \/ \E c \in RationalColumns : row[c] = NaNq

\* Mutant of dropna: no row is dropped.
dropna_KeepAll(rows) == rows

\* df.dropna()
dropna(rows) == SelectSeq(rows, LAMBDA row : ~HasNaN(row))

prepare_features(rows, w) ==
    dropna(create_interaction_features(create_temporal_features(rows, w)))

(***************************************************************************)
(* Comparisons of raw values: every comparison with NaN is false.          *)
(***************************************************************************)
Ge(x, c) == ~IsNaN(x) /\ x >= c
Le(x, c) == ~IsNaN(x) /\ x <= c
Gt(x, c) == ~IsNaN(x) /\ x > c
Lt(x, c) == ~IsNaN(x) /\ x < c

Count(bools) == Cardinality({i \in DOMAIN bools : bools[i]})

(***************************************************************************)
(* Selecting an engine's rows and its latest reading.                      *)
(***************************************************************************)
\* df['engine_id'].unique()
Engines(rows) == {rows[i].engine_id : i \in DOMAIN rows}

\* The positions of the rows of engine e.
RowsOf(rows, e) == {i \in DOMAIN rows : rows[i].engine_id = e}

\* sort_values('timestamp') of the rows at positions idx: the default sort of
\* one column is not stable, so rows with equal timestamps come in any order.
SortedByTimestamp(rows, idx) ==
    { o \in [1..Cardinality(idx) -> idx] :
        /\ \A a, b \in DOMAIN o : a < b =>
              /\ o[a] # o[b]
              /\ rows[o[a]].timestamp <= rows[o[b]].timestamp }

\* df[df['engine_id'] == e].sort_values('timestamp'), as sequences of rows.
EngineData(rows, e) ==
    { [k \in DOMAIN o |-> rows[o[k]]] : o \in SortedByTimestamp(rows, RowsOf(rows, e)) }

\* Mutant of TailRows: the first n rows, the oldest readings.
TailRows_Head(s, n) == SubSeq(s, 1, Min(n, Len(s)))

\* .tail(n): the last n rows, none for n = 0 and, for a negative n, all rows
\* but the first -n.
TailRows(s, n) ==
    IF n >= 0
    THEN SubSeq(s, Max(1, Len(s) - n + 1), Len(s))
    ELSE SubSeq(s, Min(Len(s), -n) + 1, Len(s))

\* df.sort_values('timestamp').groupby('engine_id').tail(1): for each engine
\* one of its rows of greatest timestamp.
LatestPerEngine(rows) ==
    { f \in [Engines(rows) -> DOMAIN rows] :
        \A e \in Engines(rows) :
            /\ f[e] \in RowsOf(rows, e)
            /\ \A j \in RowsOf(rows, e) : rows[j].timestamp <= rows[f[e]].timestamp }

(***************************************************************************)
(* get_engines: the status of one engine from its latest reading.          *)
(***************************************************************************)
\* Mutant of HealthyIndicators: the upper end of the normal temperature
\* range is excluded (580 <= t < 640).
HealthyIndicators_StrictUpper(latest) ==
    Count(<< Ge(latest.temperature, 580) /\ Lt(latest.temperature, 640),
             Ge(latest.pressure, 545) /\ Le(latest.pressure, 555),
             Le(latest.vibration, 15),
             Ge(latest.oil_quality, 20) >>)

HealthyIndicators(latest) ==
    Count(<< Ge(latest.temperature, 580) /\ Le(latest.temperature, 640),
             Ge(latest.pressure, 545) /\ Le(latest.pressure, 555),
             Le(latest.vibration, 15),
             Ge(latest.oil_quality, 20) >>)

WarningIndicators(latest) ==
    Count(<< (Ge(latest.temperature, 630) /\ Le(latest.temperature, 650))
                \/ Lt(latest.temperature, 570),
             (Ge(latest.pressure, 553) /\ Le(latest.pressure, 557))
                \/ Lt(latest.pressure, 543),
             Ge(latest.vibration, 12) /\ Le(latest.vibration, 18),
             Ge(latest.oil_quality, 15) /\ Lt(latest.oil_quality, 25) >>)

\* Mutant of EngineStatus: the sensor rule is asked before the failure flag.
EngineStatus_WarningFirst(latest) ==
    IF WarningIndicators(latest) >= 2 \/ HealthyIndicators(latest) < 3
    THEN "warning"
    ELSE IF latest.failure = 1 THEN "critical" ELSE "normal"

EngineStatus(latest) ==
    IF latest.failure = 1 THEN "critical"
    ELSE IF WarningIndicators(latest) >= 2 \/ HealthyIndicators(latest) < 3
         THEN "warning"
         ELSE "normal"

\* The entry of engine_list for one engine.
EngineEntry(latest) ==
    [id |-> latest.engine_id,
     status |-> EngineStatus(latest),
     operating_hours |-> latest.operating_hours,
     temperature |-> latest.temperature,
     pressure |-> latest.pressure,
     vibration |-> latest.vibration,
     oil_quality |-> latest.oil_quality]

\* The ids of a set of engines in ascending order (engines.sort()).
RECURSIVE SortedIds(_)
SortedIds(S) ==
    IF S = {} THEN <<>>
    ELSE LET m == CHOOSE x \in S : \A y \in S : x <= y
         IN  <<m>> \o SortedIds(S \ {m})

(***************************************************************************)
(* get_fleet_stats: the counts, percentages and averages.                  *)
(***************************************************************************)
\* The vectorised indicators of one row of latest_per_engine.
FleetHealthy(r) ==
    Count(<< Ge(r.temperature, 580) /\ Le(r.temperature, 640),
             Ge(r.pressure, 545) /\ Le(r.pressure, 555),
             Le(r.vibration, 15),
             Ge(r.oil_quality, 20) >>)

FleetWarning(r) ==
    Count(<< (Ge(r.temperature, 630) /\ Le(r.temperature, 650))
                \/ Lt(r.temperature, 570),
             (Ge(r.pressure, 553) /\ Le(r.pressure, 557))
                \/ Lt(r.pressure, 543),
             Ge(r.vibration, 12) /\ Le(r.vibration, 18),
             Ge(r.oil_quality, 15) /\ Lt(r.oil_quality, 25) >>)

FleetHasFailureFlag(r) == r.failure = 1

\* int(has_failure_flag.sum()) over the rows latest (a sequence).
CriticalEngines(latest) ==
    Cardinality({i \in DOMAIN latest : FleetHasFailureFlag(latest[i])})

\* Mutant of WarningEngines: the failure flag is not excluded.
WarningEngines_NoFailureCheck(latest) ==
    Cardinality({i \in DOMAIN latest :
        FleetWarning(latest[i]) >= 2 \/ FleetHealthy(latest[i]) < 3})

WarningEngines(latest) ==
    Cardinality({i \in DOMAIN latest :
        /\ ~FleetHasFailureFlag(latest[i])
        /\ (FleetWarning(latest[i]) >= 2 \/ FleetHealthy(latest[i]) < 3)})

HealthyEngines(total, latest) ==
    total - CriticalEngines(latest) - WarningEngines(latest)

\* round(x, 1) of the percentage count / total * 100, in tenths of a percent
\* (1000 is 100.0); a tie goes to the even tenth.
Percentage(count, total) ==
    LET q == (1000 * count) \div total
        r == (1000 * count) % total
    IN  IF 2 * r > total \/ (2 * r = total /\ q % 2 = 1) THEN q + 1 ELSE q

\* Mutant of MeanOf: a missing value is left out of the sum but counted.
MeanOf_CountAll(latest, col) ==
    LET vals == Observed(Column(latest, col))
    IN  IF Len(vals) >= 1 THEN Rat(Sum(vals), Len(latest)) ELSE NaNq

\* Series.mean(): over the observed values, NaN when there is none.
MeanOf(latest, col) ==
    LET vals == Observed(Column(latest, col))
    IN  IF Len(vals) >= 1 THEN Rat(Sum(vals), Len(vals)) ELSE NaNq

AverageMetrics(latest) ==
    [temperature |-> MeanOf(latest, "temperature"),
     pressure |-> MeanOf(latest, "pressure"),
     vibration |-> MeanOf(latest, "vibration"),
     oil_quality |-> MeanOf(latest, "oil_quality"),
     operating_hours |-> MeanOf(latest, "operating_hours")]

(***************************************************************************)
(* get_recommendation                                                      *)
(***************************************************************************)
\* The warnings of the sensor check, in the order the code appends them.
SensorWarnings(sensor_data) ==
    (IF Gt(sensor_data.temperature, 100) THEN <<"High temperature detected">> ELSE <<>>)
    \o (IF Gt(sensor_data.vibration, 8) THEN <<"Excessive vibration detected">> ELSE <<>>)
    \o (IF Lt(sensor_data.oil_quality, 40) THEN <<"Low oil quality">> ELSE <<>>)

\* Mutant of get_recommendation: the tiers start at 0.9 and 0.7 inclusive.
get_recommendation_Inclusive(prediction, probability, sensor_data) ==
    IF prediction = 1
    THEN [priority |-> IF probability >= 90 THEN "critical"
                       ELSE IF probability >= 70 THEN "high" ELSE "medium",
          action |-> "", message |-> <<>>]
    ELSE [priority |-> IF SensorWarnings(sensor_data) # <<>> THEN "low" ELSE "normal",
          action |-> "",
          message |-> <<"Normal operation with warnings: ">> \o SensorWarnings(sensor_data)]

\* probability in hundredths; message is the text, followed by the warnings
\* joined into it.
get_recommendation(prediction, probability, sensor_data) ==
    IF prediction = 1
    THEN IF probability > 90
         THEN [priority |-> "critical",
               action |-> "Schedule immediate maintenance",
               message |-> <<"Critical failure imminent. Stop operation and inspect immediately.">>]
         ELSE IF probability > 70
         THEN [priority |-> "high",
               action |-> "Schedule maintenance within 24 hours",
               message |-> <<"High failure probability detected. Reduce load and schedule inspection.">>]
         ELSE [priority |-> "medium",
               action |-> "Schedule maintenance within week",
               message |-> <<"Elevated failure risk. Monitor closely and plan maintenance.">>]
    ELSE IF SensorWarnings(sensor_data) # <<>>
         THEN [priority |-> "low",
               action |-> "Monitor sensors",
               message |-> <<"Normal operation with warnings: ">> \o SensorWarnings(sensor_data)]
         ELSE [priority |-> "normal",
               action |-> "Continue normal operation",
               message |-> <<"All systems operating within normal parameters.">>]

(***************************************************************************)
(* The external scaler and classifier, as the calls made on them.          *)
(***************************************************************************)
\* feature_cols: every column but timestamp, engine_id and failure.
ModelInput(row) ==
    [c \in DOMAIN row \ {"timestamp", "engine_id", "failure"} |-> row[c]]

\* scaler.transform(X)
ScalerCalls(X) == << [fn |-> "scaler.transform", x |-> X] >>

\* Mutant of ClassifierCalls: the label is asked for a second time (a retry).
ClassifierCalls_Retry(X) ==
    << [fn |-> "model.predict", x |-> X],
       [fn |-> "model.predict", x |-> X],
       [fn |-> "model.predict_proba", x |-> X] >>

\* model.predict(X_scaled) and model.predict_proba(X_scaled); x is the row
\* that was scaled.
ClassifierCalls(X) ==
    << [fn |-> "model.predict", x |-> X],
       [fn |-> "model.predict_proba", x |-> X] >>

(***************************************************************************)
(* calculate_roi.  Amounts are integers; a quotient is an exact rational,  *)
(* and a rounded value the rational of its decimal (0.3 is <<3, 10>>).     *)
(* None is <<>>.                                                           *)
(***************************************************************************)
None == <<>>

\* The pairs <<failures_per_year, detection_rate>>, failures_per_year in
\* 0..200 and detection_rate in 0..100, for which the binary64 product
\* failures_per_year * (detection_rate / 100) is below the integer
\* failures_per_year * detection_rate / 100: 100 * 0.29 is
\* 28.999999999999996.
Binary64BelowInteger ==
    { <<50, 58>>, <<90, 70>>, <<100, 29>>, <<100, 57>>, <<100, 58>>,
      <<150, 82>>, <<170, 70>>, <<180, 35>>, <<180, 70>>, <<200, 29>>,
      <<200, 57>>, <<200, 58>> }

\* int(failures_per_year * detection_rate), detection_rate being the
\* request's percentage / 100 in binary64 (failures_per_year in 0..200, the
\* percentage in 0..100): the product truncated.
prevented_failures(failures_per_year, percentage) ==
    IF <<failures_per_year, percentage>> \in Binary64BelowInteger
    THEN (failures_per_year * percentage) \div 100 - 1
    ELSE (failures_per_year * percentage) \div 100

\* The integer nearest to num / den (den > 0), a tie going to the even one.
RoundHalfEven(num, den) ==
    LET q == num \div den
        r == num % den
    IN  IF 2 * r > den \/ (2 * r = den /\ q % 2 = 1) THEN q + 1 ELSE q

\* round(q, 1); inf and NaN are left as they are.
Round1(q) ==
    IF q[2] = 0 THEN q ELSE Rat(RoundHalfEven(10 * q[1], q[2]), 10)

\* round(q, 0)
Round0(q) ==
    IF q[2] = 0 THEN q ELSE <<RoundHalfEven(q[1], q[2]), 1>>

\* Mutant of roi_percentage: the investment is not tested.
roi_percentage_Unguarded(net_savings, initial_investment) ==
    Rat(net_savings * 100, initial_investment)

\* (net_savings / initial_investment) * 100 if initial_investment > 0 else 0
roi_percentage(net_savings, initial_investment) ==
    IF initial_investment > 0
    THEN Rat(net_savings * 100, initial_investment)
    ELSE <<0, 1>>

\* Mutant of payback_period: the quotient is taken whenever net_savings is
\* not zero.
payback_period_NonZero(initial_investment, net_savings) ==
    IF net_savings # 0 THEN Rat(initial_investment, net_savings) ELSE Inf

\* initial_investment / net_savings if net_savings > 0 else float('inf')
payback_period(initial_investment, net_savings) ==
    IF net_savings > 0 THEN Rat(initial_investment, net_savings) ELSE Inf

\* dashboard.calculate_roi: the ROI metrics of the dashboard's calculator;
\* roi_percentage and payback_period are not rounded.
dashboard_calculate_roi(prevented, cost_per_failure, maintenance_cost, investment) ==
    LET total_failure_cost == prevented * cost_per_failure
        net_savings == total_failure_cost - maintenance_cost
    IN  [total_failure_cost |-> total_failure_cost,
         maintenance_cost |-> maintenance_cost,
         net_savings |-> net_savings,
         roi_percentage |->
            IF investment > 0 THEN Rat(net_savings * 100, investment) ELSE <<0, 1>>,
         payback_period |->
            IF investment > 0
            THEN (IF net_savings > 0 THEN Rat(investment, net_savings) ELSE Inf)
            ELSE Inf]

\* q * k
Times(q, k) == IF q[2] = 0 THEN q ELSE Rat(q[1] * k, q[2])

\* Mutant of Projections: the savings of a year are compounded, year * year.
Projections_Compound(net_savings, initial_investment) ==
    [year \in 1..5 |->
        [year |-> year,
         savings |-> net_savings * year * year,
         roi |-> roi_percentage(net_savings * year * year, initial_investment)]]

\* The five-year projection.
Projections(net_savings, initial_investment) ==
    [year \in 1..5 |->
        [year |-> year,
         savings |-> net_savings * year,
         roi |-> roi_percentage(net_savings * year, initial_investment)]]

\* The request body of the default values of calculate_roi.
DefaultRoiInput ==
    [fleet_size |-> 100, failures_per_year |-> 20, cost_per_failure |-> 50000,
     detection_rate |-> 95, maintenance_cost |-> 100000,
     initial_investment |-> 250000]

\* Request bodies: no failure, the default and a hundred failures a year;
\* detection rates whose product is and is not exact in binary64; costs and
\* investments that give positive, zero and negative savings, a zero
\* investment, and quotients that are not multiples of a tenth.
RoiInputs ==
    [fleet_size : {100},
     failures_per_year : {0, 20, 100},
     cost_per_failure : {0, 7, 900},
     detection_rate : {0, 29, 95, 100},
     maintenance_cost : {0, 100, 1000},
     initial_investment : {0, 3, 250}] \cup {DefaultRoiInput}

(***************************************************************************)
(* The handlers.  resp is the response of the request being served, calls  *)
(* the calls it made on the scaler and the classifier.  Besides the fields *)
(* of the JSON body, resp keeps the handler's local "latest": the latest   *)
(* reading (get_engines, get_fleet_stats: of each engine, by ascending id).*)
(***************************************************************************)
Labels == {0, 1}

\* Mutant of confidence: the probability of failure whatever the label.
confidence_OfFailure(prediction, probability) ==
    probability

\* The confidence of a prediction, in hundredths: the probability of the
\* predicted label.
confidence(prediction, probability) ==
    IF prediction = 1 THEN probability ELSE 100 - probability

\* History of the calls of FeatureEngineer.prepare_features, kept in the
\* specification that compares calls (last_features.kept) and read by no
\* handler: the input and the output of the most recent call, and whether
\* the call before it was given the same input.
FeatureCall(input, out) ==
    IF last_features.kept
    THEN [kept |-> TRUE, called |-> TRUE, input |-> input, out |-> out,
          repeated |-> last_features.called /\ last_features.input = input]
    ELSE last_features

\* No request is being served.
Idle == resp.op = "none"

\* The response is sent and the request's locals are gone.
Return ==
    /\ ~Idle
    /\ resp' = [op |-> "none", code |-> 0]
    /\ calls' = <<>>
    /\ UNCHANGED <<data_loaded, df, model_loaded, last_features>>

\* GET /api/engines
get_engines ==
    /\ Idle
    /\ calls' = <<>>
    /\ UNCHANGED <<data_loaded, df, model_loaded, last_features>>
    /\ IF ~data_loaded
       THEN resp' = [op |-> "get_engines", code |-> 500, error |-> "Data not loaded"]
       ELSE \E f \in LatestPerEngine(df) :
              LET ids == SortedIds(Engines(df))
                  engine_list == [k \in DOMAIN ids |-> EngineEntry(df[f[ids[k]]])]
              IN  IF \E k \in DOMAIN engine_list : IsNaN(engine_list[k].operating_hours)
                  THEN resp' = [op |-> "get_engines", code |-> 500, error |-> "ValueError"]
                  ELSE resp' = [op |-> "get_engines", code |-> 200,
                                latest |-> [k \in DOMAIN ids |-> df[f[ids[k]]]],
                                engines |-> engine_list,
                                total |-> Len(engine_list)]

\* GET /api/engine/<engine_id>
get_engine(engine_id) ==
    /\ Idle
    /\ calls' = <<>>
    /\ UNCHANGED <<data_loaded, df, model_loaded, last_features>>
    /\ IF ~data_loaded
       THEN resp' = [op |-> "get_engine", code |-> 500, request |-> engine_id,
                     error |-> "Data not loaded"]
       ELSE IF RowsOf(df, engine_id) = {}
       THEN resp' = [op |-> "get_engine", code |-> 404, request |-> engine_id,
                     error |-> "Engine not found"]
       ELSE \E engine_data \in EngineData(df, engine_id) :
              LET latest == engine_data[Len(engine_data)]
              IN  IF IsNaN(latest.operating_hours)
                  THEN resp' = [op |-> "get_engine", code |-> 500,
                                request |-> engine_id, error |-> "ValueError"]
                  ELSE resp' =
                         [op |-> "get_engine", code |-> 200, request |-> engine_id,
                          id |-> engine_id,
                          current_status |->
                             [temperature |-> latest.temperature,
                              pressure |-> latest.pressure,
                              vibration |-> latest.vibration,
                              oil_quality |-> latest.oil_quality,
                              operating_hours |-> latest.operating_hours,
                              failure |-> latest.failure # 0,
                              timestamp |-> latest.timestamp]]

\* One entry of the history returned by get_engine_history.
HistoryEntry(row) ==
    [timestamp |-> row.timestamp,
     temperature |-> row.temperature,
     pressure |-> row.pressure,
     vibration |-> row.vibration,
     oil_quality |-> row.oil_quality,
     failure |-> row.failure # 0]

\* GET /api/engine/<engine_id>/history?hours=<hours>
get_engine_history(engine_id, hours) ==
    /\ Idle
    /\ calls' = <<>>
    /\ UNCHANGED <<data_loaded, df, model_loaded, last_features>>
    /\ IF ~data_loaded
       THEN resp' = [op |-> "get_engine_history", code |-> 500,
                     request |-> engine_id, hours |-> hours,
                     error |-> "Data not loaded"]
       ELSE \E sorted \in EngineData(df, engine_id) :
              LET engine_data == TailRows(sorted, hours)
                  history == [k \in DOMAIN engine_data |-> HistoryEntry(engine_data[k])]
              IN  IF Len(engine_data) = 0
                  THEN resp' = [op |-> "get_engine_history", code |-> 404,
                                request |-> engine_id, hours |-> hours,
                                error |-> "Engine not found"]
                  ELSE resp' = [op |-> "get_engine_history", code |-> 200,
                                request |-> engine_id, hours |-> hours,
                                engine_id |-> engine_id,
                                history |-> history,
                                count |-> Len(history)]

\* GET /api/fleet/stats
get_fleet_stats ==
    /\ Idle
    /\ calls' = <<>>
    /\ UNCHANGED <<data_loaded, df, model_loaded, last_features>>
    /\ IF ~data_loaded
       THEN resp' = [op |-> "get_fleet_stats", code |-> 500, error |-> "Data not loaded"]
       ELSE \E f \in LatestPerEngine(df) :
              LET ids == SortedIds(Engines(df))
                  latest_per_engine == [k \in DOMAIN ids |-> df[f[ids[k]]]]
                  total_engines == Cardinality(Engines(df))
                  critical_engines == CriticalEngines(latest_per_engine)
                  warning_engines == WarningEngines(latest_per_engine)
                  healthy_engines == HealthyEngines(total_engines, latest_per_engine)
              IN  IF total_engines = 0
                  THEN resp' = [op |-> "get_fleet_stats", code |-> 500,
                                error |-> "ZeroDivisionError"]
                  ELSE resp' = [op |-> "get_fleet_stats", code |-> 200,
                                latest |-> latest_per_engine,
                                total_engines |-> total_engines,
                                healthy_engines |-> healthy_engines,
                                warning_engines |-> warning_engines,
                                critical_engines |-> critical_engines,
                                health_percentage |-> Percentage(healthy_engines, total_engines),
                                warning_percentage |-> Percentage(warning_engines, total_engines),
                                critical_percentage |-> Percentage(critical_engines, total_engines),
                                average_metrics |-> AverageMetrics(latest_per_engine),
                                total_readings |-> Len(df)]

\* GET /api/predict/<engine_id>; prediction and probability are what the
\* classifier returns, probs the probabilities it can return.  The locals
\* kept in resp: request (the engine_id asked for), history (temp_df before
\* the feature engineering) and classifier (what model.predict and
\* model.predict_proba returned).
predict_failure(engine_id, probs) ==
    /\ Idle
    /\ UNCHANGED <<data_loaded, df, model_loaded>>
    /\ IF ~data_loaded \/ ~model_loaded
       THEN /\ calls' = <<>>
            /\ UNCHANGED last_features
            /\ resp' = [op |-> "predict_failure", code |-> 500,
                        request |-> engine_id,
                        error |-> "Resources not loaded"]
       ELSE IF RowsOf(df, engine_id) = {}
       THEN /\ calls' = <<>>
            /\ UNCHANGED last_features
            /\ resp' = [op |-> "predict_failure", code |-> 404,
                        request |-> engine_id,
                        error |-> "Engine not found"]
       ELSE \E engine_data \in EngineData(df, engine_id) :
              LET history == TailRows(engine_data, TailN)
                  temp_df == prepare_features(history, WindowSize)
                  X == ModelInput(temp_df[Len(temp_df)])
                  latest == engine_data[Len(engine_data)]
              IN  /\ last_features' = FeatureCall(history, temp_df)
                  /\ IF Len(temp_df) = 0
                     THEN /\ calls' = <<>>
                          /\ resp' = [op |-> "predict_failure", code |-> 400,
                                      request |-> engine_id,
                                      history |-> history,
                                      error |-> "Insufficient data for prediction"]
                     ELSE /\ calls' = ScalerCalls(X) \o ClassifierCalls(X)
                          /\ \E prediction \in Labels, probability \in probs :
                             IF IsNaN(latest.operating_hours)
                             THEN resp' = [op |-> "predict_failure", code |-> 500,
                                           request |-> engine_id,
                                           history |-> history,
                                           error |-> "ValueError"]
                             ELSE resp' =
                                  [op |-> "predict_failure", code |-> 200,
                                   request |-> engine_id,
                                   history |-> history,
                                   classifier |-> [predict |-> prediction,
                                                   predict_proba |-> probability],
                                   engine_id |-> engine_id,
                                   prediction |->
                                      [failure_predicted |-> prediction = 1,
                                       probability |-> probability,
                                       confidence |-> confidence(prediction, probability)],
                                   current_readings |->
                                      [temperature |-> latest.temperature,
                                       pressure |-> latest.pressure,
                                       vibration |-> latest.vibration,
                                       oil_quality |-> latest.oil_quality,
                                       operating_hours |-> latest.operating_hours],
                                   recommendation |->
                                      get_recommendation(prediction, probability, latest)]

\* Mutant of train_prepare_features: the window grows after the first call
\* (a state hidden in the feature engineer).
train_prepare_features_Stateful ==
    /\ Idle
    /\ data_loaded
    /\ calls' = <<>>
    /\ UNCHANGED <<data_loaded, df, model_loaded>>
    /\ resp' = [op |-> "prepare_features", code |-> 200, input |-> df,
                out |-> prepare_features(df, IF last_features.called
                                             THEN WindowSize + 1
                                             ELSE WindowSize)]
    /\ last_features' = FeatureCall(df, resp'.out)

\* Mutant of train_prepare_features: no copy, the caller's frame is sorted in
\* place.
train_prepare_features_InPlace ==
    /\ Idle
    /\ data_loaded
    /\ calls' = <<>>
    /\ UNCHANGED <<data_loaded, model_loaded>>
    /\ df' = SortValues(df)
    /\ resp' = [op |-> "prepare_features", code |-> 200, input |-> df,
                out |-> prepare_features(df, WindowSize)]
    /\ last_features' = FeatureCall(df, resp'.out)

\* train_model.main: feature_engineer.prepare_features(df) over the whole
\* dataset, rows of every engine in storage order.
train_prepare_features ==
    /\ Idle
    /\ data_loaded
    /\ calls' = <<>>
    /\ UNCHANGED <<data_loaded, df, model_loaded>>
    /\ resp' = [op |-> "prepare_features", code |-> 200, input |-> df,
                out |-> prepare_features(df, WindowSize)]
    /\ last_features' = FeatureCall(df, resp'.out)

\* POST /api/roi/calculate; data is the request body.  resp keeps it as the
\* handler's local "data".
calculate_roi(data) ==
    /\ Idle
    /\ calls' = <<>>
    /\ UNCHANGED <<data_loaded, df, model_loaded, last_features>>
    /\ LET prevented == prevented_failures(data.failures_per_year, data.detection_rate)
           total_failure_cost == prevented * data.cost_per_failure
           net_savings == total_failure_cost - data.maintenance_cost
           roi == roi_percentage(net_savings, data.initial_investment)
           payback == payback_period(data.initial_investment, net_savings)
       IN  resp' =
             [op |-> "calculate_roi", code |-> 200, data |-> data,
              input_parameters |->
                 [fleet_size |-> data.fleet_size,
                  failures_per_year |-> data.failures_per_year,
                  cost_per_failure |-> data.cost_per_failure,
                  detection_rate |-> <<data.detection_rate, 1>>],
              results |->
                 [prevented_failures |-> prevented,
                  failure_costs_avoided |-> total_failure_cost,
                  maintenance_cost |-> data.maintenance_cost,
                  net_savings |-> net_savings,
                  roi_percentage |-> Round1(roi),
                  payback_period_years |->
                     IF payback # Inf THEN Round1(payback) ELSE None,
                  payback_period_months |->
                     IF payback # Inf THEN Round0(Times(payback, 12)) ELSE None],
              projections |-> Projections(net_savings, data.initial_investment)]

(***************************************************************************)
(* Specifications.  The state after load_resources: the dataset and the    *)
(* model are loaded or not; no request is being served.                    *)
(***************************************************************************)
InitOf(datasets) ==
    /\ model_loaded \in BOOLEAN
    /\ \/ data_loaded = FALSE /\ df = <<>>
       \/ data_loaded = TRUE /\ df \in datasets
    /\ resp = [op |-> "none", code |-> 0]
    /\ calls = <<>>
    /\ last_features = [kept |-> FALSE, called |-> FALSE]

NextOf(probs, bodies) ==
    \/ get_engines
    \/ get_fleet_stats
    \/ train_prepare_features
    \/ \E e \in RequestIds : get_engine(e)
    \/ \E e \in RequestIds, hours \in Hours : get_engine_history(e, hours)
    \/ \E e \in RequestIds : predict_failure(e, probs)
    \/ \E data \in bodies : calculate_roi(data)
    \/ Return

\* Probabilities a classifier returns: one in each tier of the recommendation.
Probs == {50, 80, 95}

\* Probabilities on both sides of the thresholds 0.7 and 0.9.
ThresholdProbs == {0, 50, 70, 71, 90, 91, 100}

\* The fleet: rows of two engines with healthy, degrading and failed readings.
Init == InitOf(DatasetsOf(ReadingsOf(EngineIds, {1, 2}, FleetProfiles), MaxRows))

Next == NextOf(Probs, {DefaultRoiInput})

Spec == Init /\ [][Next]_vars

\* Histories of one engine with missing and degenerate readings.
InitHist == InitOf(DatasetsOf(ReadingsOf({1}, Timestamps, FeatureProfiles), MaxRows))

SpecHist == InitHist /\ [][Next]_vars

\* Rows of two engines in any storage order, for the feature engineering.
InitFeat ==
    InitOf(DatasetsOf(ReadingsOf(EngineIds, {1, 2}, MixedProfiles), MaxRows))

SpecFeat == InitFeat /\ [][Next]_vars

\* The history of one engine with readings whose pressure + 1 is zero.
InitDiv == InitOf(DatasetsOf(ReadingsOf({1}, Timestamps, DivisionProfiles), MaxRows))

SpecDiv == InitDiv /\ [][Next]_vars

\* The history of one engine, the calls of prepare_features being recorded.
InitCalls ==
    /\ model_loaded \in BOOLEAN
    /\ data_loaded = TRUE
    /\ df \in DatasetsOf(ReadingsOf({1}, Timestamps, CallProfiles), MaxRows)
    /\ resp = [op |-> "none", code |-> 0]
    /\ calls = <<>>
    /\ last_features = [kept |-> TRUE, called |-> FALSE]

SpecCalls == InitCalls /\ [][Next]_vars

\* The ROI calculator over its request bodies, beside a dataset of at most
\* one reading.
InitRoi == InitOf(DatasetsOf(ReadingsOf({1}, {1}, CallProfiles), 1))

NextRoi == NextOf(Probs, RoiInputs)

SpecRoi == InitRoi /\ [][NextRoi]_vars

\* One reading, its values on both sides of every threshold of the rules.
InitRules == InitOf({ <<r>> : r \in RuleReadings })

NextRules == NextOf(ThresholdProbs, {DefaultRoiInput})

SpecRules == InitRules /\ [][NextRules]_vars

(***************************************************************************)
(* The claims.                                                             *)
(***************************************************************************)
Responded(op) == resp.op = op /\ resp.code = 200

\* The indicators as the specification's table states them (pressure in
\* tenths); a missing value is in no range.
InRange(x, lo, hi) == x \in lo..hi
TableNormal(r) ==
    << InRange(r.temperature, 580, 640),
       InRange(r.pressure, 545, 555),
       ~IsNaN(r.vibration) /\ ~(r.vibration > 15),
       ~IsNaN(r.oil_quality) /\ ~(r.oil_quality < 20) >>
TableWarning(r) ==
    << InRange(r.temperature, 630, 650) \/ (~IsNaN(r.temperature) /\ 570 > r.temperature),
       InRange(r.pressure, 553, 557) \/ (~IsNaN(r.pressure) /\ 543 > r.pressure),
       InRange(r.vibration, 12, 18),
       InRange(r.oil_quality, 15, 24) >>
TableSaysWarning(r) == Count(TableWarning(r)) >= 2 \/ Count(TableNormal(r)) < 3

\* C1: a reading whose failure flag is set is 'critical' whatever its four
\* sensor values are: get_engines reports the status 'critical' for every
\* engine whose latest reading has failure = 1, and get_fleet_stats counts
\* exactly those engines as critical and none of them as warning.
C1_FailureIsCritical ==
    /\ Responded("get_engines") =>
          \A k \in DOMAIN resp.engines :
              resp.latest[k].failure = 1 => resp.engines[k].status = "critical"
    /\ Responded("get_fleet_stats") =>
          LET failed == {k \in DOMAIN resp.latest : resp.latest[k].failure = 1}
          IN  /\ resp.critical_engines = Cardinality(failed)
              /\ resp.warning_engines =
                    Cardinality({k \in DOMAIN resp.latest \ failed :
                                    TableSaysWarning(resp.latest[k])})
              /\ resp.healthy_engines =
                    Cardinality({k \in DOMAIN resp.latest \ failed :
                                    ~TableSaysWarning(resp.latest[k])})

\* C1 witness: get_engines has reported 'critical' for a failed engine all
\* of whose sensors are in their normal range and none in a warning range.
C1_Witness ==
    /\ Responded("get_engines")
    /\ \E k \in DOMAIN resp.engines :
          /\ resp.latest[k].failure = 1
          /\ Count(TableNormal(resp.latest[k])) = 4
          /\ Count(TableWarning(resp.latest[k])) = 0
          /\ resp.engines[k].status = "critical"

\* C2: a reading whose failure flag is not set is 'warning' if and only if
\* at least 2 warning-range indicators or fewer than 3 normal-range
\* indicators of the table are true, and 'normal' otherwise; the reading
\* temperature 645, pressure 55.0, vibration 5, oil_quality 80 has 3 normal
\* indicators, 1 warning indicator and the status 'normal'.
C2_WarningRule ==
    Responded("get_engines") =>
        \A k \in DOMAIN resp.engines :
            LET r == resp.latest[k]
            IN  /\ r.failure = 0 =>
                      resp.engines[k].status =
                          IF TableSaysWarning(r) THEN "warning" ELSE "normal"
                /\ (r.failure = 0 /\ r.temperature = 645 /\ r.pressure = 550
                      /\ r.vibration = 5 /\ r.oil_quality = 80) =>
                      /\ HealthyIndicators(r) = 3
                      /\ WarningIndicators(r) = 1
                      /\ resp.engines[k].status = "normal"

\* C2 witness: get_engines has classified the reading 645 / 55.0 / 5 / 80.
C2_Witness ==
    /\ Responded("get_engines")
    /\ \E k \in DOMAIN resp.engines :
          /\ resp.latest[k].failure = 0
          /\ resp.latest[k].temperature = 645 /\ resp.latest[k].pressure = 550
          /\ resp.latest[k].vibration = 5 /\ resp.latest[k].oil_quality = 80
          /\ resp.engines[k].status = "normal"

\* C3: the three counts of get_fleet_stats add up to total_engines and each
\* lies between 0 and total_engines; when the latest reading of every engine
\* has the failure flag set, critical_engines = total_engines, the critical
\* percentage is 100.0 and no engine is healthy or warning.
C3_CountsPartition ==
    Responded("get_fleet_stats") =>
        /\ resp.healthy_engines + resp.warning_engines + resp.critical_engines
              = resp.total_engines
        /\ {resp.healthy_engines, resp.warning_engines, resp.critical_engines}
              \subseteq 0..resp.total_engines
        /\ resp.total_engines = Cardinality(Engines(df))
        /\ (\A k \in DOMAIN resp.latest : resp.latest[k].failure = 1) =>
              /\ resp.critical_engines = resp.total_engines
              /\ resp.critical_percentage = 1000
              /\ resp.healthy_engines + resp.warning_engines = 0

\* C3 witness: a fleet of two engines whose latest readings both failed.
C3_Witness ==
    /\ Responded("get_fleet_stats")
    /\ resp.total_engines = 2
    /\ \A k \in DOMAIN resp.latest : resp.latest[k].failure = 1
    /\ resp.critical_percentage = 1000

\* C4 (the claim, which the code violates): asked to summarise a loaded
\* dataset without any machine, get_fleet_stats rejects the request and does
\* not end in the arithmetic error of a division by total_engines = 0.
C4_EmptyFleetRejected ==
    (resp.op = "get_fleet_stats" /\ data_loaded /\ Engines(df) = {}) =>
        /\ resp.code \in {400, 404}
        /\ resp.error # "ZeroDivisionError"

IsClassifierCall(c) == c.fn \in {"model.predict", "model.predict_proba"}
IsScalerCall(c) == c.fn = "scaler.transform"

\* C5 (the claim as stated, which the code violates): on every path through
\* predict_failure the classifier is invoked at most once.
C5_ClassifierInvokedAtMostOnce ==
    Len(SelectSeq(calls, IsClassifierCall)) <= 1

\* C5 (amended): a request that reaches prediction invokes the classifier
\* exactly twice and in this order, model.predict once and
\* model.predict_proba once, both on the row the scaler was given, with no
\* further invocation; the label and the probability of the response are the
\* values these two invocations returned; every other path invokes it never.
C5_ClassifierInvokedTwice ==
    /\ Len(SelectSeq(calls, IsClassifierCall)) \in {0, 2}
    /\ calls # <<>> =>
          /\ resp.op = "predict_failure"
          /\ resp.code \in {200, 500}
          /\ Len(calls) = 3
          /\ calls[1].fn = "scaler.transform"
          /\ calls[2] = [fn |-> "model.predict", x |-> calls[1].x]
          /\ calls[3] = [fn |-> "model.predict_proba", x |-> calls[1].x]
    /\ Responded("predict_failure") =>
          /\ Len(calls) = 3
          /\ resp.prediction.failure_predicted = (resp.classifier.predict = 1)
          /\ resp.prediction.probability = resp.classifier.predict_proba
    /\ (resp.op = "predict_failure" /\ resp.code \in {400, 404}) => calls = <<>>

\* C5 witness: a prediction has been returned.
C5_Witness ==
    /\ Responded("predict_failure")
    /\ Len(SelectSeq(calls, IsClassifierCall)) = 2

\* Every raw column of the reading holds a value.
FullyDefined(r) == \A c \in RawColumns : ~IsNaN(r[c])

\* The reading is fully defined and its temperature / (pressure + 1) is not
\* 0/0 (pressure in tenths).
Usable(r) == FullyDefined(r) /\ ~(r.temperature = 0 /\ r.pressure = -10)

PredictionAsked ==
    resp.op = "predict_failure" /\ data_loaded /\ model_loaded
       /\ RowsOf(df, resp.request) # {}

\* C6 (the claim as stated, which the code violates): when the engine has at
\* least one fully defined reading, the request proceeds to prediction.
C6_DefinedReadingSuffices ==
    (PredictionAsked /\ \E i \in RowsOf(df, resp.request) : FullyDefined(df[i]))
        => resp.code # 400

\* C6 (amended): the outcome is 'Insufficient data', with no call of the
\* scaler or the classifier, exactly when prepare_features yields no row for
\* the most recent TailN readings of the engine; and it yields at least one
\* row, so that the request proceeds to prediction, exactly when one of these
\* TailN readings is fully defined with temperature / (pressure + 1) not 0/0.
C6_InsufficientData ==
    PredictionAsked =>
        /\ resp.code = 400 <=> prepare_features(resp.history, WindowSize) = <<>>
        /\ resp.code = 400 <=> ~\E k \in DOMAIN resp.history : Usable(resp.history[k])
        /\ resp.code = 400 =>
              /\ resp.error = "Insufficient data for prediction"
              /\ calls = <<>>
        /\ resp.code # 400 =>
              /\ \E k \in DOMAIN calls : IsScalerCall(calls[k])
              /\ \E k \in DOMAIN calls : IsClassifierCall(calls[k])
        /\ Len(resp.history) = Min(TailN, Cardinality(RowsOf(df, resp.request)))

\* C6 witness: 'Insufficient data' for an engine that has a fully defined
\* reading, which is older than its most recent TailN readings.
C6_Witness ==
    /\ PredictionAsked
    /\ resp.code = 400
    /\ calls = <<>>
    /\ \E i \in RowsOf(df, resp.request) : Usable(df[i])

\* The sensors of a reading whose condition of get_recommendation holds.
TriggeredSensors(r) ==
    (IF ~IsNaN(r.temperature) /\ r.temperature >= 101 THEN {"High temperature detected"} ELSE {})
    \cup (IF ~IsNaN(r.vibration) /\ r.vibration >= 9 THEN {"Excessive vibration detected"} ELSE {})
    \cup (IF ~IsNaN(r.oil_quality) /\ r.oil_quality <= 39 THEN {"Low oil quality"} ELSE {})

\* C7: the priority is the function of (label, probability, latest sensors)
\* of the table: label 1 gives critical above 0.9, high above 0.7 up to 0.9,
\* medium up to 0.7; label 0 gives low, with a message naming exactly the
\* sensors whose condition holds, when one of temperature > 100,
\* vibration > 8, oil_quality < 40 holds, and normal otherwise.
C7_RecommendationTable ==
    Responded("predict_failure") =>
        LET label == resp.classifier.predict
            p == resp.classifier.predict_proba
            r == resp.current_readings
            rec == resp.recommendation
            named == {rec.message[k] : k \in 2..Len(rec.message)}
        IN  /\ (label = 1 /\ p > 90) => rec.priority = "critical"
            /\ (label = 1 /\ 70 < p /\ p <= 90) => rec.priority = "high"
            /\ (label = 1 /\ p <= 70) => rec.priority = "medium"
            /\ (label = 0 /\ TriggeredSensors(r) # {}) =>
                  /\ rec.priority = "low"
                  /\ named = TriggeredSensors(r)
                  /\ Len(rec.message) = 1 + Cardinality(TriggeredSensors(r))
            /\ (label = 0 /\ TriggeredSensors(r) = {}) => rec.priority = "normal"
            /\ rec.priority \in {"critical", "high", "medium", "low", "normal"}

\* C7 witness: label 1 with probability exactly 0.9 has been given 'high'.
C7_Witness ==
    /\ Responded("predict_failure")
    /\ resp.classifier.predict = 1
    /\ resp.classifier.predict_proba = 90
    /\ resp.recommendation.priority = "high"

\* No two rows of one engine carry the same timestamp.
DistinctTimestamps(rows) ==
    \A i, j \in DOMAIN rows :
        (i # j /\ rows[i].engine_id = rows[j].engine_id)
            => rows[i].timestamp # rows[j].timestamp

\* The rows in the order f of their positions.
Permuted(rows, f) == [i \in DOMAIN rows |-> rows[f[i]]]

OfEngine(rows, e) == SelectSeq(rows, LAMBDA r : r.engine_id = e)

\* C8: prepare_features sorts by itself: over every permutation of the same
\* rows (timestamps distinct within an engine) it returns the same output,
\* whose rows are in ascending order of engine_id and then of timestamp.
C8_OrderIndependent ==
    (resp.op = "prepare_features" /\ DistinctTimestamps(resp.input)) =>
        /\ \A f \in Permutations(DOMAIN resp.input) :
              prepare_features(Permuted(resp.input, f), WindowSize) = resp.out
        /\ \A a, b \in DOMAIN resp.out :
              a < b =>
                \/ resp.out[a].engine_id < resp.out[b].engine_id
                \/ /\ resp.out[a].engine_id = resp.out[b].engine_id
                   /\ resp.out[a].timestamp < resp.out[b].timestamp

\* C8 witness: features of two engines from rows stored out of order.
C8_Witness ==
    /\ resp.op = "prepare_features"
    /\ DistinctTimestamps(resp.input)
    /\ Cardinality(Engines(resp.input)) = 2
    /\ Len(resp.out) = 3
    /\ resp.input[1].engine_id = 2
    /\ resp.input[2].engine_id = 1 /\ resp.input[2].timestamp = 2
    /\ resp.input[3].engine_id = 1 /\ resp.input[3].timestamp = 1

\* C9: with readings of two or more engines in the input, the output rows of
\* each engine are those prepare_features returns for that engine's readings
\* alone: no rolling mean, rolling std or rate of change depends on a reading
\* of another engine.
C9_WithinMachine ==
    (resp.op = "prepare_features" /\ Cardinality(Engines(resp.input)) >= 2) =>
        \A e \in Engines(resp.input) :
            OfEngine(resp.out, e)
                = prepare_features(OfEngine(resp.input, e), WindowSize)

\* C9 witness: two engines with different temperatures, the rows of the
\* second stored right after those of the first.
C9_Witness ==
    /\ resp.op = "prepare_features"
    /\ Len(resp.out) >= 2
    /\ \E k \in 1..(Len(resp.out) - 1) :
          /\ resp.out[k].engine_id # resp.out[k + 1].engine_id
          /\ resp.out[k].temperature # resp.out[k + 1].temperature
          /\ resp.out[k + 1].temperature_rolling_mean
                = <<resp.out[k + 1].temperature, 1>>

MeanColumn(col) ==
    CASE col = "temperature" -> "temperature_rolling_mean"
      [] col = "pressure" -> "pressure_rolling_mean"
      [] col = "vibration" -> "vibration_rolling_mean"
      [] col = "oil_quality" -> "oil_quality_rolling_mean"

StdColumn(col) ==
    CASE col = "temperature" -> "temperature_rolling_std"
      [] col = "pressure" -> "pressure_rolling_std"
      [] col = "vibration" -> "vibration_rolling_std"
      [] col = "oil_quality" -> "oil_quality_rolling_std"

SensorColumns == {"temperature", "pressure", "vibration", "oil_quality"}

\* The positions of the usable readings of a series, in order.
KeptPositions(series) ==
    SelectSeq([i \in 1..Len(series) |-> i], LAMBDA i : Usable(series[i]))

\* C10: for the reading at position i (from 1) of an engine's series in
\* timestamp order, the rolling mean of each sensor is the arithmetic mean of
\* the sensor's values over the last min(i, WindowSize) readings of the
\* engine (of those of them that are not missing), and the rolling standard
\* deviation is defined, and 0 when that window is a single reading.
C10_TrailingWindow ==
    resp.op = "prepare_features" =>
        \A e \in Engines(resp.input) :
            LET series == OfEngine(SortValues(resp.input), e)
                kept == KeptPositions(series)
                outE == OfEngine(resp.out, e)
            IN  /\ Len(outE) = Len(kept)
                /\ \A k \in DOMAIN kept : \A col \in SensorColumns :
                      LET i == kept[k]
                          n == Min(i, WindowSize)
                          vals == Observed(Column(SubSeq(series, i - n + 1, i), col))
                          mean == outE[k][MeanColumn(col)]
                          std == outE[k][StdColumn(col)]
                      IN  /\ outE[k].timestamp = series[i].timestamp
                          /\ mean[2] > 0
                          /\ mean[1] * Len(vals) = Sum(vals) * mean[2]
                          /\ std[2] > 0
                          /\ n = 1 => std = <<0, 1>>

\* C10 witness: a series longer than the window whose first reading differs
\* from the later ones, so that the last rolling mean leaves it out.
C10_Witness ==
    /\ resp.op = "prepare_features"
    /\ Cardinality(Engines(resp.input)) = 1
    /\ Len(resp.out) > WindowSize
    /\ resp.out[1].temperature # resp.out[2].temperature
    /\ resp.out[Len(resp.out)].temperature_rolling_mean
          # Rat(Sum(Column(resp.out, "temperature")), Len(resp.out))

RateColumn(col) ==
    CASE col = "temperature" -> "temperature_rate_of_change"
      [] col = "pressure" -> "pressure_rate_of_change"
      [] col = "vibration" -> "vibration_rate_of_change"
      [] col = "oil_quality" -> "oil_quality_rate_of_change"

\* C11 (the claim as stated, which the code violates): on every emitted row
\* the rate of change of each sensor is 0 for the engine's first reading and
\* otherwise the sensor's value minus its value in the engine's preceding
\* reading in timestamp order, a value that must then be defined: a 0 on a
\* later reading means the two values are equal.
C11_RateIsDifference ==
    resp.op = "prepare_features" =>
        \A e \in Engines(resp.input) :
            LET series == OfEngine(SortValues(resp.input), e)
                kept == KeptPositions(series)
                outE == OfEngine(resp.out, e)
            IN  /\ Len(outE) = Len(kept)
                /\ \A k \in DOMAIN kept : \A col \in SensorColumns :
                      LET i == kept[k]
                          rate == outE[k][RateColumn(col)]
                      IN  IF i = 1 THEN rate = 0
                          ELSE /\ ~IsNaN(series[i - 1][col])
                               /\ rate = series[i][col] - series[i - 1][col]

\* The value of a derived column is a number: not NaN and not the result of
\* a division by zero.
DefinedValue(q) == q[2] # 0

\* C12 (the claim as stated, which the code violates): no row that
\* prepare_features returns has an undefined value in a raw or a derived
\* column, and every input reading whose columns are all defined is kept.
C12_NoUndefinedValue ==
    resp.op = "prepare_features" =>
        /\ \A k \in DOMAIN resp.out :
              /\ \A c \in RawColumns \cup RateColumns : ~IsNaN(resp.out[k][c])
              /\ \A c \in RationalColumns : DefinedValue(resp.out[k][c])
        /\ \A i \in DOMAIN resp.input :
              (FullyDefined(resp.input[i]) /\ resp.input[i].pressure # -10)
                 => \E k \in DOMAIN resp.out :
                       \A c \in RawColumns : resp.out[k][c] = resp.input[i][c]

\* C13: when the input of prepare_features is empty, or none of its rows is
\* usable, the call ends normally and returns the empty sequence; and a
\* prediction over a history none of whose rows is usable ends with the
\* 'Insufficient data' outcome, not with an error.
C13_EmptyOutputNoError ==
    /\ (resp.op = "prepare_features"
          /\ \A i \in DOMAIN resp.input : ~Usable(resp.input[i]))
        => (resp.code = 200 /\ resp.out = <<>>)
    /\ (PredictionAsked /\ "history" \in DOMAIN resp
          /\ \A i \in DOMAIN resp.history : ~Usable(resp.history[i]))
        => (resp.code = 400 /\ calls = <<>>)

\* C13 witness: every row of a non-empty input is dropped, one for a missing
\* value and one for its 0/0 ratio.
C13_Witness ==
    /\ resp.op = "prepare_features"
    /\ resp.out = <<>>
    /\ \E i \in DOMAIN resp.input : ~FullyDefined(resp.input[i])
    /\ \E i \in DOMAIN resp.input : FullyDefined(resp.input[i])

\* C13 witness of the empty input: a loaded dataset without rows.
C13_WitnessEmpty ==
    /\ resp.op = "prepare_features"
    /\ resp.input = <<>>
    /\ resp.out = <<>>

\* The output rows come from distinct input readings, raw columns unchanged.
RawColumnsPreserved ==
    \E f \in [DOMAIN resp.out -> DOMAIN resp.input] :
        /\ \A a, b \in DOMAIN resp.out : a # b => f[a] # f[b]
        /\ \A k \in DOMAIN resp.out : \A c \in RawColumns :
              resp.out[k][c] = resp.input[f[k]][c]

\* C14 (the claim as stated, which the code violates): the raw columns of
\* every output row are those of one input reading, distinct output rows
\* come from distinct input readings, and an input without undefined values
\* gives exactly one output row per input reading.
C14_RawRoundTrip ==
    resp.op = "prepare_features" =>
        /\ RawColumnsPreserved
        /\ (\A i \in DOMAIN resp.input : FullyDefined(resp.input[i]))
              => Len(resp.out) = Len(resp.input)

\* C14 (amended): the raw columns of every output row are those of one input
\* reading, distinct output rows come from distinct input readings, every
\* output row has the raw columns and the derived columns, and there is
\* exactly one output row for each input reading whose raw columns are all
\* defined and whose temperature / (pressure + 1) is not 0/0.
C14_RawColumnsKept ==
    resp.op = "prepare_features" =>
        /\ RawColumnsPreserved
        /\ \A k \in DOMAIN resp.out :
              DOMAIN resp.out[k] = RawColumns \cup RateColumns \cup RationalColumns
        /\ Len(resp.out) = Len(SelectSeq(resp.input, Usable))

\* C14 witness: two readings are kept and one, with a value missing, is not.
C14_Witness ==
    /\ resp.op = "prepare_features"
    /\ Len(resp.out) = 2
    /\ Len(resp.input) = 3
    /\ resp.out[1].temperature # resp.out[2].temperature

\* The input is a history of one engine, of one reading or more, whose four
\* sensor values are the same on every reading.
ConstantHistory ==
    /\ resp.op = "prepare_features"
    /\ Len(resp.input) >= 1
    /\ Cardinality(Engines(resp.input)) = 1
    /\ \A i \in DOMAIN resp.input : \A col \in SensorColumns :
          /\ ~IsNaN(resp.input[i][col])
          /\ resp.input[i][col] = resp.input[1][col]

\* The output has one row per input reading, each with rolling std 0,
\* rolling mean the constant and rate of change 0, for every sensor.
ConstantFeatures ==
    /\ Len(resp.out) = Len(resp.input)
    /\ \A k \in DOMAIN resp.out : \A col \in SensorColumns :
          /\ resp.out[k][StdColumn(col)] = <<0, 1>>
          /\ resp.out[k][MeanColumn(col)] = <<resp.input[1][col], 1>>
          /\ resp.out[k][RateColumn(col)] = 0

\* C15 (the claim as stated, which the code violates): for every history of
\* one engine with constant sensor values, prepare_features returns as many
\* rows as readings, with rolling std 0, rolling mean the constant and rate
\* of change 0 on every row.
C15_ConstantHistory ==
    ConstantHistory => ConstantFeatures

\* C15 (amended): the same, for the histories whose readings have every
\* column defined and whose constant values are not temperature = 0 with
\* pressure = -1.0 (whose ratio is 0/0).
C15_UsableConstantHistory ==
    (ConstantHistory /\ \A i \in DOMAIN resp.input : Usable(resp.input[i]))
        => ConstantFeatures

\* C15 witness: a constant history longer than the window, every row kept.
C15_Witness ==
    /\ ConstantHistory
    /\ Len(resp.input) > WindowSize
    /\ Len(resp.out) = Len(resp.input)
    /\ resp.out[1].temperature = 75
    /\ resp.out[1].timestamp # resp.out[2].timestamp

MostRecentOf(hist, rows, e) ==
    \E f \in [DOMAIN hist -> RowsOf(rows, e)] :
        /\ \A a, b \in DOMAIN hist : a # b => f[a] # f[b]
        /\ \A a \in DOMAIN hist : hist[a] = rows[f[a]]
        /\ \A j \in RowsOf(rows, e) :
              (\A a \in DOMAIN hist : f[a] # j)
                 => \A a \in DOMAIN hist : rows[j].timestamp <= hist[a].timestamp

\* C17: a prediction is made from the TailN most recent readings of the
\* requested engine only (all of them when it has fewer): prepare_features
\* is run over exactly these, and the scaler and the classifier are given
\* one row, the feature row of latest timestamp among those it returned,
\* without the columns timestamp, engine_id and failure.
C17_ModelInput ==
    (resp.op = "predict_failure" /\ calls # <<>>) =>
        LET hist == resp.history
            out == prepare_features(hist, WindowSize)
        IN  /\ Len(hist) = Min(TailN, Cardinality(RowsOf(df, resp.request)))
            /\ MostRecentOf(hist, df, resp.request)
            /\ last_features.kept =>
                  (last_features.input = hist /\ last_features.out = out)
            /\ \A n \in DOMAIN calls :
                  /\ calls[n].x = calls[1].x
                  /\ DOMAIN calls[n].x =
                        (RawColumns \cup RateColumns \cup RationalColumns)
                           \ {"timestamp", "engine_id", "failure"}
                  /\ \E k \in DOMAIN out :
                        /\ \A c \in DOMAIN calls[n].x : calls[n].x[c] = out[k][c]
                        /\ \A j \in DOMAIN out :
                              out[j].timestamp <= out[k].timestamp

\* C17 witness: the engine has more than TailN readings, stored with the
\* most recent one first, and a prediction is returned.
C17_Witness ==
    /\ Responded("predict_failure")
    /\ calls # <<>>
    /\ Cardinality(RowsOf(df, resp.request)) > TailN
    /\ Len(resp.history) = TailN
    /\ \A i \in DOMAIN df : i > 1 => df[i].timestamp < df[1].timestamp
    /\ resp.history[1].temperature # resp.history[2].temperature

\* C18 (the claim as stated, which the code violates): prevented_failures is
\* the exact floor of failures_per_year * detection_rate / 100,
\* failure_costs_avoided is prevented_failures * cost_per_failure, and
\* net_savings is failure_costs_avoided - maintenance_cost.
C18_RoiReference ==
    Responded("calculate_roi") =>
        /\ resp.results.prevented_failures
              = (resp.data.failures_per_year * resp.data.detection_rate) \div 100
        /\ resp.results.failure_costs_avoided
              = resp.results.prevented_failures * resp.data.cost_per_failure
        /\ resp.results.net_savings
              = resp.results.failure_costs_avoided - resp.data.maintenance_cost

\* The rational q is num / den rounded to a multiple of 1 / unit: a multiple
\* of 1 / unit at most half of 1 / unit away from num / den (den > 0).
IsRounded(q, num, den, unit) ==
    /\ q # None
    /\ q[2] > 0
    /\ unit % q[2] = 0
    /\ 2 * unit * Abs(q[1] * den - num * q[2]) <= q[2] * den

\* C19 (the claim as stated, which the code violates): the reported payback
\* period is initial_investment / net_savings when net_savings > 0 and is
\* None when net_savings <= 0.
C19_PaybackQuotient ==
    Responded("calculate_roi") =>
        IF resp.results.net_savings > 0
        THEN resp.results.payback_period_years
                = Rat(resp.data.initial_investment, resp.results.net_savings)
        ELSE resp.results.payback_period_years = None

\* C19 (amended): when net_savings > 0 the reported payback period is
\* initial_investment / net_savings rounded to one decimal place (and, in
\* months, twelve times the quotient rounded to an integer); when
\* net_savings <= 0 both are None, so that no numeric payback, negative,
\* zero or other, is returned; the request always ends normally.
C19_PaybackRounded ==
    resp.op = "calculate_roi" =>
        /\ resp.code = 200
        /\ IF resp.results.net_savings > 0
           THEN /\ IsRounded(resp.results.payback_period_years,
                             resp.data.initial_investment,
                             resp.results.net_savings, 10)
                /\ IsRounded(resp.results.payback_period_months,
                             12 * resp.data.initial_investment,
                             resp.results.net_savings, 1)
           ELSE /\ resp.results.payback_period_years = None
                /\ resp.results.payback_period_months = None

\* C19 witness: positive savings and a payback period that is not a
\* multiple of a tenth of a year.
C19_Witness ==
    /\ Responded("calculate_roi")
    /\ resp.results.net_savings > 0
    /\ resp.data.initial_investment > 0
    /\ resp.results.payback_period_years
          # Rat(resp.data.initial_investment, resp.results.net_savings)

\* C19 witness of the other case: negative savings, no payback period.
C19_WitnessNegative ==
    /\ Responded("calculate_roi")
    /\ resp.results.net_savings < 0
    /\ resp.data.initial_investment > 0
    /\ resp.results.payback_period_years = None

\* C20 (the claim as stated, which the code violates): with
\* initial_investment = 0 the ROI percentage and the ROI of every year of
\* the projection are 0; with initial_investment > 0 the ROI percentage is
\* net_savings / initial_investment * 100.
C20_RoiQuotient ==
    Responded("calculate_roi") =>
        IF resp.data.initial_investment = 0
        THEN /\ resp.results.roi_percentage = <<0, 1>>
             /\ \A y \in DOMAIN resp.projections : resp.projections[y].roi = <<0, 1>>
        ELSE resp.results.roi_percentage
                = Rat(100 * resp.results.net_savings, resp.data.initial_investment)

\* C20 (amended): the request ends normally for every initial_investment;
\* with initial_investment = 0 the ROI percentage and the ROI of each of the
\* five years of the projection are 0; with initial_investment > 0 the ROI
\* percentage is net_savings / initial_investment * 100 rounded to one
\* decimal place.
C20_RoiRounded ==
    resp.op = "calculate_roi" =>
        /\ resp.code = 200
        /\ DOMAIN resp.projections = 1..5
        /\ IF resp.data.initial_investment = 0
           THEN /\ resp.results.roi_percentage = <<0, 1>>
                /\ \A y \in 1..5 : resp.projections[y].roi = <<0, 1>>
           ELSE IsRounded(resp.results.roi_percentage,
                          100 * resp.results.net_savings,
                          resp.data.initial_investment, 10)

\* C20 witness: no investment and savings that are not zero.
C20_Witness ==
    /\ Responded("calculate_roi")
    /\ resp.data.initial_investment = 0
    /\ resp.results.net_savings > 0
    /\ resp.results.roi_percentage = <<0, 1>>

\* C20 witness of the other case: an ROI percentage that is not a multiple
\* of a tenth.
C20_WitnessRounded ==
    /\ Responded("calculate_roi")
    /\ resp.data.initial_investment > 0
    /\ resp.results.roi_percentage
          # Rat(100 * resp.results.net_savings, resp.data.initial_investment)

\* C21: the projection has five entries, for the years 1 to 5 in this
\* order; the savings of year y are net_savings * y, that is y times the
\* savings of year 1, and its roi is these savings / initial_investment *
\* 100, or 0 when initial_investment is 0.
C21_Projection ==
    Responded("calculate_roi") =>
        /\ DOMAIN resp.projections = 1..5
        /\ \A y \in 1..5 :
              /\ resp.projections[y].year = y
              /\ resp.projections[y].savings = resp.results.net_savings * y
              /\ resp.projections[y].savings = y * resp.projections[1].savings
              /\ resp.projections[y].roi =
                    IF resp.data.initial_investment = 0 THEN <<0, 1>>
                    ELSE Rat(100 * resp.projections[y].savings,
                             resp.data.initial_investment)

\* C21 witness: an investment and savings that are not zero, so that the
\* savings and the roi grow from year to year.
C21_Witness ==
    /\ Responded("calculate_roi")
    /\ resp.data.initial_investment > 0
    /\ resp.results.net_savings > 0
    /\ resp.projections[5].savings > resp.projections[4].savings
    /\ resp.projections[5].roi # resp.projections[1].roi

MetricColumns ==
    {"temperature", "pressure", "vibration", "oil_quality", "operating_hours"}

\* The rows are one reading of each engine of the dataset, by ascending
\* engine_id, each of them a reading of greatest timestamp of its engine.
LatestOfEachEngine(latest) ==
    /\ Len(latest) = Cardinality(Engines(df))
    /\ \A a, b \in DOMAIN latest : a < b => latest[a].engine_id < latest[b].engine_id
    /\ \A k \in DOMAIN latest :
          /\ \E i \in DOMAIN df : df[i] = latest[k]
          /\ \A i \in RowsOf(df, latest[k].engine_id) :
                df[i].timestamp <= latest[k].timestamp

\* C22: each average metric of get_fleet_stats is the sum of the field over
\* the latest readings of the engines that have a value for it, divided by
\* the number of these engines; it is undefined only when no engine has a
\* value for the field.
C22_AverageMetrics ==
    Responded("get_fleet_stats") =>
        /\ LatestOfEachEngine(resp.latest)
        /\ \A col \in MetricColumns :
              LET present == {k \in DOMAIN resp.latest : ~IsNaN(resp.latest[k][col])}
                  total == Sum([k \in DOMAIN resp.latest |->
                                  IF k \in present THEN resp.latest[k][col] ELSE 0])
                  avg == resp.average_metrics[col]
              IN  IF present = {} THEN avg = NaNq
                  ELSE /\ avg[2] > 0
                       /\ avg[1] * Cardinality(present) = total * avg[2]

\* C22 witness: the latest reading of one engine lacks the temperature and
\* the average temperature is that of the other engine.
C22_Witness ==
    /\ Responded("get_fleet_stats")
    /\ Len(resp.latest) = 2
    /\ IsNaN(resp.latest[1].temperature)
    /\ ~IsNaN(resp.latest[2].temperature)
    /\ resp.average_metrics.temperature = <<resp.latest[2].temperature, 1>>
    /\ resp.average_metrics.pressure
          = Rat(resp.latest[1].pressure + resp.latest[2].pressure, 2)

\* The counts, percentages and average metrics get_fleet_stats returns for
\* the dataset rows when f gives the position of each engine's latest
\* reading.
FleetSummaryOf(rows, f) ==
    LET ids == SortedIds(Engines(rows))
        latest == [k \in DOMAIN ids |-> rows[f[ids[k]]]]
        total == Cardinality(Engines(rows))
    IN  [total_engines |-> total,
         healthy_engines |-> HealthyEngines(total, latest),
         warning_engines |-> WarningEngines(latest),
         critical_engines |-> CriticalEngines(latest),
         health_percentage |-> Percentage(HealthyEngines(total, latest), total),
         warning_percentage |-> Percentage(WarningEngines(latest), total),
         critical_percentage |-> Percentage(CriticalEngines(latest), total),
         average_metrics |-> AverageMetrics(latest)]

\* The same fields of the response.
FleetSummaryReturned ==
    [total_engines |-> resp.total_engines,
     healthy_engines |-> resp.healthy_engines,
     warning_engines |-> resp.warning_engines,
     critical_engines |-> resp.critical_engines,
     health_percentage |-> resp.health_percentage,
     warning_percentage |-> resp.warning_percentage,
     critical_percentage |-> resp.critical_percentage,
     average_metrics |-> resp.average_metrics]

\* C23 (the claim as stated, which the code violates): whatever the order in
\* which the rows of the dataset are stored, get_fleet_stats returns the
\* same counts, percentages and average metrics.
C23_OrderIndependent ==
    Responded("get_fleet_stats") =>
        \A p \in Permutations(DOMAIN df) :
            \A f \in LatestPerEngine(Permuted(df, p)) :
                FleetSummaryOf(Permuted(df, p), f) = FleetSummaryReturned

\* C24: the confidence of a successful prediction is the probability when the
\* predicted label is 1 and 1 - probability when it is 0, and lies in [0, 1]
\* (hundredths: [0, 100]).
C24_Confidence ==
    (Responded("predict_failure") /\ resp.code = 200) =>
        /\ resp.classifier.predict = 1 =>
              resp.prediction.confidence = resp.classifier.predict_proba
        /\ resp.classifier.predict = 0 =>
              resp.prediction.confidence = 100 - resp.classifier.predict_proba
        /\ resp.prediction.confidence \in 0..100

\* A prediction of label 0 with probability 1, whose confidence is 0.
C24_Witness ==
    /\ Responded("predict_failure")
    /\ resp.code = 200
    /\ resp.classifier.predict = 0
    /\ resp.classifier.predict_proba = 100
    /\ resp.prediction.confidence = 0

\* C25: the feature engineering leaves the frame passed by the caller as it
\* was (same rows, order, columns and values), and no request changes the
\* dataset held by the server.
C25_InputUnchanged ==
    [][/\ df' = df
       /\ resp'.op = "prepare_features" => resp'.input = df']_vars

\* C25 witness: prepare_features has returned, sorted and with fewer rows,
\* the features of a dataset that is stored out of order and holds a reading
\* whose features are undefined.
C25_Witness ==
    /\ Responded("prepare_features")
    /\ resp.input = df
    /\ SortValues(df) # df
    /\ Len(resp.out) > 0
    /\ Len(resp.out) < Len(df)

\* The number of engines get_engines reports with the status s.
ReportedWith(s) ==
    Cardinality({k \in DOMAIN resp.engines : resp.engines[k].status = s})

\* The latest reading of each engine, in the order of the ids, when f gives
\* its position in rows.
LatestRows(rows, f) ==
    LET ids == SortedIds(Engines(rows))
    IN  [k \in DOMAIN ids |-> rows[f[ids[k]]]]

\* C26 (the claim as stated, which the code violates): for the same dataset,
\* ties of the latest timestamp included, the number of engines get_engines
\* reports as normal, warning and critical is the count get_fleet_stats
\* reports as healthy_engines, warning_engines and critical_engines.
C26_FleetAgreesWithEngines ==
    Responded("get_engines") =>
        \A f \in LatestPerEngine(df) :
            LET latest == LatestRows(df, f)
            IN  /\ ReportedWith("normal") =
                      HealthyEngines(Cardinality(Engines(df)), latest)
                /\ ReportedWith("warning") = WarningEngines(latest)
                /\ ReportedWith("critical") = CriticalEngines(latest)

\* The sensor values returned as current_readings.
ReadingColumns ==
    {"temperature", "pressure", "vibration", "oil_quality", "operating_hours"}

\* C27 (the claim as stated, which the code violates): in a successful
\* prediction the feature row given to the scaler and the classifier comes
\* from the reading returned as current_readings, the engine's latest.
C27_SameReading ==
    Responded("predict_failure") =>
        \A n \in DOMAIN calls : \A c \in ReadingColumns :
            calls[n].x[c] = resp.current_readings[c]

\* The metrics of the dashboard's calculator for the inputs of the request
\* being answered.
DashboardMetrics ==
    dashboard_calculate_roi(resp.results.prevented_failures,
                            resp.data.cost_per_failure,
                            resp.data.maintenance_cost,
                            resp.data.initial_investment)

\* C28 (the claim as stated, which the code violates): for the same inputs
\* the dashboard's calculate_roi and the endpoint give the same net_savings,
\* the same roi_percentage before rounding and the same payback outcome,
\* both undefined or both the same number.
C28_SameRoi ==
    Responded("calculate_roi") =>
        /\ DashboardMetrics.net_savings = resp.results.net_savings
        /\ DashboardMetrics.roi_percentage
              = roi_percentage(resp.results.net_savings, resp.data.initial_investment)
        /\ DashboardMetrics.payback_period
              = payback_period(resp.data.initial_investment, resp.results.net_savings)
        /\ (DashboardMetrics.payback_period = Inf)
              <=> (resp.results.payback_period_years = None)

\* A per-engine request has been answered with the resources it needs
\* loaded.
EngineAsked ==
    \/ resp.op \in {"get_engine", "get_engine_history"} /\ data_loaded
    \/ resp.op = "predict_failure" /\ data_loaded /\ model_loaded

\* C29 (the claim as stated, which the code violates): a per-engine endpoint
\* answers 'Engine not found' exactly when the dataset holds no reading of
\* the engine asked for, and get_engine_history of an engine with readings
\* returns the min(hours, number of readings) most recent ones, at least one,
\* whatever the value of hours.
C29_NotFoundIffNoReading ==
    EngineAsked =>
        /\ (resp.code = 404) <=> (RowsOf(df, resp.request) = {})
        /\ (resp.op = "get_engine_history" /\ RowsOf(df, resp.request) # {}) =>
              /\ resp.code = 200
              /\ resp.count = Min(resp.hours, Cardinality(RowsOf(df, resp.request)))
              /\ resp.count > 0

\* The reading r with the value x of the sensor c is not reported as normal,
\* by get_engines or by get_fleet_stats.
StillWarning(r, c, x) ==
    LET moved == [r EXCEPT ![c] = x]
    IN  /\ EngineStatus(moved) = "warning"
        /\ WarningEngines(<<moved>>) = 1

\* C30 (the claim as stated, which the code violates): when a reading without
\* failure flag is reported as warning with one sensor in its warning band,
\* it is still reported as warning, never as normal, with that sensor further
\* out of range and the other sensors unchanged.
C30_NeverImproves ==
    (Responded("get_engines") /\ Len(df) = 1 /\ df[1].failure = 0
        /\ resp.engines[1].status = "warning") =>
        /\ df[1].temperature \in 630..650 =>
              \A x \in GridTemperature \ {NaN} :
                  x > 650 => StillWarning(df[1], "temperature", x)
        /\ df[1].pressure \in 553..557 =>
              \A x \in GridPressure \ {NaN} :
                  x > 557 => StillWarning(df[1], "pressure", x)
        /\ df[1].vibration \in 12..18 =>
              \A x \in GridVibration \ {NaN} :
                  x > 18 => StillWarning(df[1], "vibration", x)
        /\ df[1].oil_quality \in 15..24 =>
              \A x \in GridOilQuality \ {NaN} :
                  x < 15 => StillWarning(df[1], "oil_quality", x)

====
